---- MODULE Spec2Model ----
(***************************************************************************)
(* pfr, a personal finance reporter: the ledger store (~/.pfr/<name>, one  *)
(* JSON file per ledger), the nine commands of the CLI, and the monthly    *)
(* report.  One command is one short-lived process; Spec runs the commands *)
(* one after the other, SpecConc runs two mutating invocations against the *)
(* same directory one system call at a time, SpecReport applies report and *)
(* list to every ledger of a bounded set.                                  *)
(***************************************************************************)
EXTENDS Integers, Sequences, FiniteSets, TLC

VARIABLES
    home,    \* env::home_dir() is Some(..)
    fs,      \* the storage: [dir |-> ~/.pfr exists, files |-> path -> content]
    cmd,     \* the command line of the last invocation that returned
    result,  \* what that invocation's handler returned: "Ok" or the Error variant
    out,     \* what it printed on standard output (the error line is `result`)
    bk,      \* history: the ledger the last successful backup stored and whether
             \* current has differed from it since; None once a save command ran
    ncmds,   \* how many invocations have returned so far
    procs,   \* SpecConc: each concurrent invocation's position and locals
    hist     \* SpecConc, history: the order of the save_ledger calls' open and end

vars == <<home, fs, cmd, result, out, bk, ncmds, procs, hist>>

(***************************************************************************)
(* Bounds                                                                  *)
(***************************************************************************)
\* How many invocations a run of Spec holds.
MaxCmds == 8

\* The transaction names the add / rm command lines draw from.
TxNames == {"a", "b"}

(***************************************************************************)
(* Data: Option, Money, Frequency, AddType, Transaction, Ledger            *)
(***************************************************************************)
None == <<>>

Some(s) == <<s>>

Money(c) == [cents |-> c]

FrequencyVariants == {"daily", "workdays", "weekly", "monthly", "quarterly", "yearly"}

AddTypeVariants == {"income", "expense"}

Transaction(k, f, n, a, cat, acc) ==
    [add_type |-> k, freq |-> f, name |-> n, amount |-> Money(a),
     category |-> cat, account |-> acc]

\* Ledger::new(): the empty HashMap<String, Transaction>.
NewLedger == [n \in {} |-> None]

\* HashMap::insert: the displaced value (None when the key was free) and the map.
Insert(ledger, key, val) ==
    [old |-> IF key \in DOMAIN ledger THEN Some(ledger[key]) ELSE None,
     map |-> [k \in DOMAIN ledger \cup {key} |-> IF k = key THEN val ELSE ledger[k]]]

\* HashMap::remove.
Remove(ledger, key) == [k \in DOMAIN ledger \ {key} |-> ledger[k]]

\* The orders a HashMap may iterate its keys in (RandomState: any order).
Orders(S) == {s \in [1..Cardinality(S) -> S] : \A i, j \in DOMAIN s : s[i] = s[j] => i = j}

(***************************************************************************)
(* serde_json: a file's content is the sequence of the tokens written to   *)
(* it: "{", one token per map entry (key and serialized value), "}".      *)
(***************************************************************************)
JNull == [j |-> "null", s |-> ""]

JString(s) == [j |-> "string", s |-> s]

TokOpen == [tok |-> "{"]

TokClose == [tok |-> "}"]

TokEntry(k, v) == [tok |-> "entry", key |-> k, val |-> v]

\* #[derive(Serialize)] on Option<String>: None is null, Some(s) the string.
ser_option(o) == IF o = None THEN JNull ELSE JString(o[1])

\* #[derive(Serialize)] on Transaction: the enums by variant name, Money as {cents}.
ser_transaction_lossy(t) ==
    [add_type |-> JString(t.add_type), freq |-> JString(t.freq),
     name |-> JString(t.name), amount |-> [cents |-> t.amount.cents],
     category |-> JNull, account |-> ser_option(t.account)]

ser_transaction(t) ==
    [add_type |-> JString(t.add_type), freq |-> JString(t.freq),
     name |-> JString(t.name), amount |-> [cents |-> t.amount.cents],
     category |-> ser_option(t.category), account |-> ser_option(t.account)]

\* serde_json::to_writer_pretty(&ledger): the tokens in the map's iteration order.
to_json(ledger, order) ==
    <<TokOpen>>
    \o [i \in 1..Len(order) |-> TokEntry(order[i], ser_transaction(ledger[order[i]]))]
    \o <<TokClose>>

de_option_ok(v) == v.j \in {"null", "string"}

de_option(v) == IF v.j = "null" THEN None ELSE Some(v.s)

\* #[derive(Deserialize)] on Transaction accepts the value.
de_transaction_ok(v) ==
    /\ v.add_type.j = "string" /\ v.add_type.s \in AddTypeVariants
    /\ v.freq.j = "string" /\ v.freq.s \in FrequencyVariants
    /\ v.name.j = "string"
    /\ v.amount.cents \in Nat
    /\ de_option_ok(v.category) /\ de_option_ok(v.account)

de_transaction(v) ==
    [add_type |-> v.add_type.s, freq |-> v.freq.s, name |-> v.name.s,
     amount |-> Money(v.amount.cents),
     category |-> de_option(v.category), account |-> de_option(v.account)]

\* The index of the first "}" of the content, 0 when there is none.
FirstClose(content) ==
    LET closes == {i \in 1..Len(content) : content[i] = TokClose}
    IN  IF closes = {} THEN 0 ELSE CHOOSE i \in closes : \A j \in closes : i <= j

\* serde_json::from_reader accepts the content: one object, every entry a
\* Transaction, and nothing after the closing brace (Deserializer::end).
from_json_ok(content) ==
    /\ Len(content) >= 2
    /\ content[1] = TokOpen
    /\ FirstClose(content) = Len(content)
    /\ \A i \in 2..(Len(content) - 1) :
          /\ content[i].tok = "entry"
          /\ de_transaction_ok(content[i].val)

\* The map it builds: a key met again replaces the earlier entry.
from_json(content) ==
    LET idx == 2..(Len(content) - 1)
        keys == {content[i].key : i \in idx}
        last(k) == CHOOSE i \in idx :
                      /\ content[i].key = k
                      /\ \A j \in idx : content[j].key = k => j <= i
    IN  [k \in keys |-> de_transaction(content[last(k)].val)]

(***************************************************************************)
(* The store                                                               *)
(***************************************************************************)
CurrentData == ".current_data"

CurrentBackup == ".current_backup"

\* get_path(name): ~/.pfr/<name>, or CouldNotFindHomeDirectory.
get_path(name) ==
    IF home THEN [err |-> "Ok", path |-> <<"~", ".pfr", name>>]
    ELSE [err |-> "CouldNotFindHomeDirectory", path |-> <<>>]

open_keep(st, name) ==
    LET p == get_path(name)
    IN  IF p.err # "Ok" THEN [err |-> p.err, fs |-> st]
        ELSE IF ~st.dir THEN [err |-> "WhileAttemptingToOpenDataFile", fs |-> st]
        ELSE [err |-> "Ok",
              fs |-> [st EXCEPT !.files =
                        [q \in DOMAIN st.files \cup {p.path} |->
                            IF q \in DOMAIN st.files THEN st.files[q] ELSE <<>>]]]

\* OpenOptions::new().write(true).create(true).truncate(true).open(path): the
\* file is created or emptied; the open fails when ~/.pfr does not exist.
open_truncate(st, name) ==
    LET p == get_path(name)
    IN  IF p.err # "Ok" THEN [err |-> p.err, fs |-> st]
        ELSE IF ~st.dir THEN [err |-> "WhileAttemptingToOpenDataFile", fs |-> st]
        ELSE [err |-> "Ok",
              fs |-> [st EXCEPT !.files =
                        [q \in DOMAIN st.files \cup {p.path} |->
                            IF q = p.path THEN <<>> ELSE st.files[q]]]]

\* What a read finds where the file was extended past its end and not written.
TokNul == [tok |-> "nul"]

\* write_all at an offset of the file: the tokens replace what is there and
\* extend the file; a gap between the old end and the offset reads as NULs.
write_at(content, offset, toks) ==
    [i \in 1..(IF Len(content) > offset + Len(toks) THEN Len(content)
               ELSE offset + Len(toks)) |->
        IF i > offset /\ i <= offset + Len(toks) THEN toks[i - offset]
        ELSE IF i <= Len(content) THEN content[i]
        ELSE TokNul]

\* save_ledger(name, ledger) run to its end: every outcome, one per iteration
\* order of the map.
save_ledger(st, name, ledger) ==
    LET o == open_truncate(st, name)
    IN  IF o.err # "Ok" THEN {o}
        ELSE {[err |-> "Ok",
               fs |-> [o.fs EXCEPT !.files[get_path(name).path] =
                          write_at(@, 0, to_json(ledger, order))]] :
                 order \in Orders(DOMAIN ledger)}

\* load_ledger(name) run to its end.
load_ledger(st, name) ==
    LET p == get_path(name)
    IN  IF p.err # "Ok" THEN [err |-> p.err, ledger |-> NewLedger]
        ELSE IF ~st.dir \/ p.path \notin DOMAIN st.files
             THEN [err |-> "WhileAttemptingToOpenDataFile", ledger |-> NewLedger]
        ELSE IF ~from_json_ok(st.files[p.path])
             THEN [err |-> "DuringDeSerialisation", ledger |-> NewLedger]
        ELSE [err |-> "Ok", ledger |-> from_json(st.files[p.path])]

save_current_ledger(st, ledger) == save_ledger(st, CurrentData, ledger)

load_current_ledger(st) == load_ledger(st, CurrentData)

(***************************************************************************)
(* f32 arithmetic of the report: a value is m * 2^e with an integer m; a   *)
(* result is rounded to 24 significant bits, ties to even (IEEE 754).      *)
(***************************************************************************)
RECURSIVE Pow2(_)
Pow2(n) == IF n = 0 THEN 1 ELSE 2 * Pow2(n - 1)

RECURSIVE BitLen(_)
BitLen(n) == IF n = 0 THEN 0 ELSE 1 + BitLen(n \div 2)

\* q * 2^s + r with 0 <= r < 2^s, rounded to a multiple of 2^s: the multiple.
RoundEven(q, r, s) ==
    IF s = 0 THEN q
    ELSE IF r > Pow2(s - 1) \/ (r = Pow2(s - 1) /\ q % 2 = 1) THEN q + 1
    ELSE q

\* `cents as f32`
u64_as_f32(a) ==
    LET s == IF BitLen(a) > 24 THEN BitLen(a) - 24 ELSE 0
    IN  [m |-> RoundEven(a \div Pow2(s), a % Pow2(s), s), e |-> s]

\* x * y in f32. The 48-bit product of the mantissas is kept in limbs of 12
\* bits, p2 * 2^24 + p1 * 2^12 + p0, so that no step exceeds 31 bits.
f32_mul(x, y) ==
    LET xh == x.m \div 4096
        xl == x.m % 4096
        yh == y.m \div 4096
        yl == y.m % 4096
        p0 == (xl * yl) % 4096
        mid == xh * yl + xl * yh + (xl * yl) \div 4096
        p1 == mid % 4096
        p2 == xh * yh + mid \div 4096
        low == p1 * 4096 + p0
        s == BitLen(p2)
        q == IF s <= 24 THEN p2 * Pow2(24 - s) + low \div Pow2(s) ELSE p2 \div 2
        r == IF s <= 24 THEN low % Pow2(s) ELSE (p2 % 2) * Pow2(24) + low
    IN  [m |-> RoundEven(q, r, s), e |-> x.e + y.e + s]

\* `x as u64` of a value that is not negative: the integer part.
f32_as_u64(x) ==
    IF x.e >= 0 THEN x.m * Pow2(x.e)
    ELSE IF x.e <= -26 THEN 0
    ELSE x.m \div Pow2(-x.e)

\* The f32 the compiler stores for each literal of the match on freq:
\* 30.0, 4.28, 21.4, 1.0, 1.0/3.0, 1.0/12.0.
multiplier(freq) ==
    CASE freq = "daily"     -> [m |-> 30, e |-> 0]
      [] freq = "weekly"    -> [m |-> 8975811, e |-> -21]
      [] freq = "workdays"  -> [m |-> 11219763, e |-> -19]
      [] freq = "monthly"   -> [m |-> 1, e |-> 0]
      [] freq = "quarterly" -> [m |-> 11184811, e |-> -25]
      [] freq = "yearly"    -> [m |-> 11184811, e |-> -27]

\* Money { cents: (multiplier * transaction.amount.cents as f32) as u64 }
monthly_money(transaction) ==
    Money(f32_as_u64(f32_mul(multiplier(transaction.freq),
                             u64_as_f32(transaction.amount.cents))))

\* impl Display for Money: "{:>4}.{:0>2}" of cents / 100 and cents % 100.
Display(money) == [dollars |-> money.cents \div 100, cents |-> money.cents % 100]

(***************************************************************************)
(* report and list                                                         *)
(***************************************************************************)
NoOutput == [kind |-> "none"]

EmptyMap == [k \in {} |-> 0]

\* *map.entry(key).or_insert(0) += v
AddTo(map, key, v) ==
    [k \in DOMAIN map \cup {key} |->
        (IF k \in DOMAIN map THEN map[k] ELSE 0) + (IF k = key THEN v ELSE 0)]

unwrap_or_empty(o) == IF o = None THEN "" ELSE o[1]

\* total += money.cents as i64 for an income, total -= .. for an expense.
signed_total_unsigned(total, transaction, money) == total + money.cents

signed_total(total, transaction, money) ==
    IF transaction.add_type = "income" THEN total + money.cents
    ELSE total - money.cents

\* match transaction.category: the category's entry of breakdown, or other_expenses.
add_breakdown_both(acc, transaction, money) ==
    IF transaction.category # None
    THEN [acc EXCEPT !.breakdown = AddTo(@, transaction.category[1], money.cents),
                     !.other_expenses = @ + money.cents]
    ELSE [acc EXCEPT !.other_expenses = @ + money.cents]

add_breakdown(acc, transaction, money) ==
    IF transaction.category # None
    THEN [acc EXCEPT !.breakdown = AddTo(@, transaction.category[1], money.cents)]
    ELSE [acc EXCEPT !.other_expenses = @ + money.cents]

\* match transaction.account: the account's entry of coverage, or other_alloc.
add_coverage(acc, transaction, money) ==
    IF transaction.account # None
    THEN [acc EXCEPT !.coverage = AddTo(@, transaction.account[1], money.cents)]
    ELSE [acc EXCEPT !.other_alloc = @ + money.cents]

\* One pass of the loop over &ledger: the row printed and the accumulators.
report_step(acc, transaction) ==
    LET money == monthly_money(transaction)
        cat == unwrap_or_empty(transaction.category)
        accnt == unwrap_or_empty(transaction.account)
        counted == [acc EXCEPT !.total = signed_total(@, transaction, money)]
    IN  IF transaction.add_type = "income"
        THEN [counted EXCEPT
                !.rows = Append(@, [income |-> transaction.name, expend |-> "",
                                    amount |-> <<" ", Display(money), " ">>,
                                    cat |-> cat, accnt |-> accnt])]
        ELSE [add_coverage(add_breakdown(counted, transaction, money),
                           transaction, money) EXCEPT
                !.rows = Append(@, [income |-> "", expend |-> transaction.name,
                                    amount |-> <<"(", Display(money), ")">>,
                                    cat |-> cat, accnt |-> accnt])]

RECURSIVE report_loop(_, _, _, _)
report_loop(ledger, order, i, acc) ==
    IF i > Len(order) THEN acc
    ELSE report_loop(ledger, order, i + 1, report_step(acc, ledger[order[i]]))

\* The TOTAL row: plain when total > 0, else the negated total in parentheses.
total_str(total) ==
    IF total > 0 THEN <<" ", Display(Money(total)), " ">>
    ELSE <<"(", Display(Money(-total)), ")">>

\* What report prints for the ledger, iterated in `order`.
report_output(ledger, order) ==
    LET acc == report_loop(ledger, order, 1,
                   [rows |-> <<>>, total |-> 0,
                    breakdown |-> EmptyMap, other_expenses |-> 0,
                    coverage |-> EmptyMap, other_alloc |-> 0])
    IN  [kind |-> "report", rows |-> acc.rows, total |-> acc.total,
         total_str |-> total_str(acc.total),
         breakdown |-> acc.breakdown, other_expenses |-> acc.other_expenses,
         coverage |-> acc.coverage, other_alloc |-> acc.other_alloc]

\* What list prints: freq, add_type, name and amount of each entry.
list_output(ledger, order) ==
    [kind |-> "list",
     lines |-> [i \in 1..Len(order) |->
                  <<ledger[order[i]].freq, ledger[order[i]].add_type,
                    ledger[order[i]].name, Display(ledger[order[i]].amount)>>]]

(***************************************************************************)
(* The handlers, each run to its end: the set of its outcomes               *)
(* [err, fs, out], one per iteration order of the maps it walks.           *)
(***************************************************************************)
Failed(e, st) == {[err |-> e, fs |-> st, out |-> NoOutput]}

Saved(outcomes) == {[err |-> r.err, fs |-> r.fs, out |-> NoOutput] : r \in outcomes}

init_run(st) ==
    IF ~home THEN Failed("CouldNotFindHomeDirectory", st)
    ELSE Saved(save_current_ledger([st EXCEPT !.dir = TRUE], NewLedger))

add_run_overwrite(st, ac) ==
    LET l == load_current_ledger(st)
        ins == Insert(l.ledger, ac.name, ac)
    IN  IF l.err # "Ok" THEN Failed(l.err, st)
        ELSE IF ins.old # None
             THEN {[err |-> "NameIsAlreadyTaken", fs |-> r.fs, out |-> NoOutput] :
                      r \in save_current_ledger(st, ins.map)}
        ELSE Saved(save_current_ledger(st, ins.map))

\* The name is tested by inserting: a displaced value is put back and the
\* in-memory ledger dropped without a save.
add_run(st, ac) ==
    LET l == load_current_ledger(st)
        ins == Insert(l.ledger, ac.name, ac)
    IN  IF l.err # "Ok" THEN Failed(l.err, st)
        ELSE IF ins.old # None THEN Failed("NameIsAlreadyTaken", st)
        ELSE Saved(save_current_ledger(st, ins.map))

rm_run_strict(st, name) ==
    LET l == load_current_ledger(st)
    IN  IF l.err # "Ok" THEN Failed(l.err, st)
        ELSE IF name \notin DOMAIN l.ledger THEN Failed("NameIsAlreadyTaken", st)
        ELSE Saved(save_current_ledger(st, Remove(l.ledger, name)))

rm_run(st, name) ==
    LET l == load_current_ledger(st)
    IN  IF l.err # "Ok" THEN Failed(l.err, st)
        ELSE Saved(save_current_ledger(st, Remove(l.ledger, name)))

list_run(st) ==
    LET l == load_current_ledger(st)
    IN  IF l.err # "Ok" THEN Failed(l.err, st)
        ELSE {[err |-> "Ok", fs |-> st, out |-> list_output(l.ledger, order)] :
                 order \in Orders(DOMAIN l.ledger)}

report_run(st) ==
    LET l == load_current_ledger(st)
    IN  IF l.err # "Ok" THEN Failed(l.err, st)
        ELSE {[err |-> "Ok", fs |-> st, out |-> report_output(l.ledger, order)] :
                 order \in Orders(DOMAIN l.ledger)}

\* save_ledger(".current_data", load_ledger(&name)?)
load_run(st, name) ==
    LET l == load_ledger(st, name)
    IN  IF l.err # "Ok" THEN Failed(l.err, st)
        ELSE Saved(save_ledger(st, CurrentData, l.ledger))

\* save_ledger(&name, load_current_ledger()?)
save_run(st, name) ==
    LET l == load_current_ledger(st)
    IN  IF l.err # "Ok" THEN Failed(l.err, st)
        ELSE Saved(save_ledger(st, name, l.ledger))

backup_run(st) == save_run(st, CurrentBackup)

restore_run_current(st) == load_run(st, CurrentData)

restore_run(st) == load_run(st, CurrentBackup)

(***************************************************************************)
(* Spec: the commands, one invocation after the other                      *)
(***************************************************************************)
\* The transactions an add command line may carry, by name.
TxPool(n) ==
    CASE n = "a" -> {Transaction("income", "monthly", "a", 100000, None, None),
                     Transaction("expense", "yearly", "a", 120000,
                                 Some("food"), Some("bank"))}
      [] n = "b" -> {Transaction("expense", "weekly", "b", 10000, Some("rent"), None)}

TxInputs == UNION {TxPool(n) : n \in TxNames}

\* The names a save / load command line may carry.
SnapNames == {CurrentData, CurrentBackup, "s"}

Cmd(op, arg) == [op |-> op, arg |-> arg]

NoProcs == <<>>

Init ==
    /\ home \in BOOLEAN
    /\ fs \in {[dir |-> d, files |-> [p \in {} |-> <<>>]] : d \in BOOLEAN}
    /\ cmd = Cmd("none", <<>>)
    /\ result = "none"
    /\ out = NoOutput
    /\ bk = None
    /\ ncmds = 0
    /\ procs = NoProcs
    /\ hist = <<>>

\* An invocation of the command line c whose handler has the given outcomes.
Invoke(c, outcomes) ==
    /\ ncmds < MaxCmds
    /\ ncmds' = ncmds + 1
    /\ \E r \in outcomes :
          /\ fs' = r.fs
          /\ result' = r.err
          /\ out' = r.out
          /\ bk' = IF c.op = "backup" /\ r.err = "Ok"
                   THEN <<load_current_ledger(fs).ledger, FALSE>>
                   ELSE IF c.op = "save" \/ bk = None THEN None
                   ELSE <<bk[1], bk[2] \/ load_current_ledger(r.fs)
                                          # [err |-> "Ok", ledger |-> bk[1]]>>
    /\ cmd' = c
    /\ UNCHANGED <<home, procs, hist>>

init == Invoke(Cmd("init", <<>>), init_run(fs))

add(ac) == Invoke(Cmd("add", <<ac>>), add_run(fs, ac))

rm(rc) == Invoke(Cmd("rm", <<rc>>), rm_run(fs, rc))

list == Invoke(Cmd("list", <<>>), list_run(fs))

report == Invoke(Cmd("report", <<>>), report_run(fs))

save(name) == Invoke(Cmd("save", <<name>>), save_run(fs, name))

load(name) == Invoke(Cmd("load", <<name>>), load_run(fs, name))

backup == Invoke(Cmd("backup", <<>>), backup_run(fs))

restore == Invoke(Cmd("restore", <<>>), restore_run(fs))

Next ==
    \/ init
    \/ \E ac \in TxInputs : add(ac)
    \/ \E rc \in TxNames : rm(rc)
    \/ list
    \/ report
    \/ \E name \in SnapNames : save(name)
    \/ \E name \in SnapNames : load(name)
    \/ backup
    \/ restore

Spec == Init /\ [][Next]_vars

(***************************************************************************)
(* Properties of the store (Spec)                                          *)
(***************************************************************************)
Ok(ledger) == [err |-> "Ok", ledger |-> ledger]

\* The name and the ledger the handler of command line c hands to save_ledger
\* when it is started on the store st.
SavedBy(c, st) ==
    CASE c.op = "init" -> <<CurrentData, NewLedger>>
      [] c.op = "add" ->
           <<CurrentData,
             [k \in DOMAIN load_current_ledger(st).ledger \cup {c.arg[1].name} |->
                 IF k = c.arg[1].name THEN c.arg[1]
                 ELSE load_current_ledger(st).ledger[k]]>>
      [] c.op = "rm" ->
           <<CurrentData,
             [k \in DOMAIN load_current_ledger(st).ledger \ {c.arg[1]} |->
                 load_current_ledger(st).ledger[k]]>>
      [] c.op = "save" -> <<c.arg[1], load_current_ledger(st).ledger>>
      [] c.op = "backup" -> <<CurrentBackup, load_current_ledger(st).ledger>>
      [] c.op = "load" -> <<CurrentData, load_ledger(st, c.arg[1]).ledger>>
      [] c.op = "restore" -> <<CurrentData, load_ledger(st, CurrentBackup).ledger>>

SavingOps == {"init", "add", "rm", "save", "backup", "load", "restore"}

\* C1: an add whose name is already a key of the current ledger returns
\* NameIsAlreadyTaken and leaves every stored file, current included, exactly
\* as it was: no save happens and the entry under that name keeps its fields.
C1_AddDuplicate ==
    [][(/\ cmd'.op = "add"
        /\ load_current_ledger(fs).err = "Ok"
        /\ cmd'.arg[1].name \in DOMAIN load_current_ledger(fs).ledger)
       => (/\ result' = "NameIsAlreadyTaken"
           /\ fs' = fs
           /\ load_current_ledger(fs').ledger[cmd'.arg[1].name]
                = load_current_ledger(fs).ledger[cmd'.arg[1].name])]_vars

\* A duplicate add was refused although the transaction it carried differs
\* from the stored one.
C1_Witness ==
    /\ cmd.op = "add"
    /\ result = "NameIsAlreadyTaken"
    /\ load_current_ledger(fs).ledger[cmd.arg[1].name] # cmd.arg[1]

\* C2: after a successful backup of the current ledger L and any sequence of
\* init, add, rm and load since (list, report and restore too, no save), a
\* restore succeeds and the current ledger is L again.
C2_BackupRestore ==
    (cmd.op = "restore" /\ bk # None)
    => (result = "Ok" /\ load_current_ledger(fs) = Ok(bk[1]))

\* A restore brought back a non-empty ledger that current had departed from.
C2_Witness ==
    /\ cmd.op = "restore"
    /\ bk # None
    /\ bk[2]
    /\ result = "Ok"
    /\ DOMAIN bk[1] # {}

\* C3: on a loadable current ledger L, rm n returns Ok and stores L without the
\* key n, touching no other file; L itself when n is no key of L; and a second
\* rm n stores the same ledger as the first.
C3_RmIdempotent ==
    [][(cmd'.op = "rm" /\ load_current_ledger(fs).err = "Ok")
       => LET L == load_current_ledger(fs).ledger
              n == cmd'.arg[1]
          IN  /\ result' = "Ok"
              /\ load_current_ledger(fs')
                   = Ok([k \in DOMAIN L \ {n} |-> L[k]])
              /\ n \notin DOMAIN L => load_current_ledger(fs') = Ok(L)
              /\ (cmd.op = "rm" /\ cmd.arg = cmd'.arg /\ result = "Ok")
                   => load_current_ledger(fs') = Ok(L)
              /\ \A q \in DOMAIN fs.files \ {get_path(CurrentData).path} :
                    q \in DOMAIN fs'.files /\ fs'.files[q] = fs.files[q]]_vars

\* An rm succeeded on a ledger that keeps another entry.
C3_Witness ==
    /\ cmd.op = "rm"
    /\ result = "Ok"
    /\ cmd.arg[1] \notin DOMAIN load_current_ledger(fs).ledger
    /\ DOMAIN load_current_ledger(fs).ledger # {}

\* C4: whenever a handler's save_ledger(n, L) succeeds, load_ledger(n) then
\* returns a ledger with the names of L and, under each, the transaction of L
\* (kind, frequency, cents, category, account), whatever n held before.
C4_RoundTrip ==
    [][(cmd'.op \in SavingOps /\ result' = "Ok")
       => load_ledger(fs', SavedBy(cmd', fs)[1]) = Ok(SavedBy(cmd', fs)[2])]_vars

\* An add saved a two-entry ledger one of whose transactions has a category
\* and an account.
C4_Witness ==
    /\ cmd.op = "add"
    /\ result = "Ok"
    /\ Cardinality(DOMAIN load_current_ledger(fs).ledger) = 2
    /\ cmd.arg[1].category # None
    /\ cmd.arg[1].account # None

\* The stored backup: what load_ledger(".current_backup") returns.
StoredBackup(st) == load_ledger(st, CurrentBackup)

\* C9: no command but backup changes the stored backup ledger.
C9_OnlyBackupWritesBackup ==
    [][cmd'.op # "backup" => StoredBackup(fs') = StoredBackup(fs)]_vars

(***************************************************************************)
(* SpecReport: report and list on every ledger of a bounded set            *)
(***************************************************************************)
Options(S) == {None} \cup {Some(x) : x \in S}

\* The transactions a stored ledger may hold under each name.
ReportPool(n) ==
    CASE n = "a" ->
           {Transaction(k, f, "a", c, None, None) :
               k \in AddTypeVariants, f \in FrequencyVariants, c \in {0, 100000, 116182}}
           \cup {Transaction(k, f, "a", 100000, cat, acc) :
                   k \in AddTypeVariants, f \in {"monthly", "weekly"},
                   cat \in Options({"food"}), acc \in Options({"bank"})}
           \cup {Transaction(k, "yearly", "a", 120000, None, None) : k \in AddTypeVariants}
           \cup {Transaction(k, "weekly", "a", 10000, None, None) : k \in AddTypeVariants}
           \cup {Transaction(k, "monthly", "a", 16777217, None, None) : k \in AddTypeVariants}
      [] n = "b" ->
           {Transaction(k, "monthly", "b", 100000, cat, acc) :
               k \in AddTypeVariants,
               cat \in Options({"food", "rent"}), acc \in Options({"bank"})}
           \cup {Transaction(k, "yearly", "b", 120000, cat, acc) :
                   k \in AddTypeVariants,
                   cat \in Options({"food", "rent"}), acc \in Options({"bank"})}

RECURSIVE LedgersOver(_)
LedgersOver(S) ==
    IF S = {} THEN {NewLedger}
    ELSE LET n == CHOOSE x \in S : TRUE
         IN  {Insert(l, n, t).map : l \in LedgersOver(S \ {n}), t \in ReportPool(n)}

ReportLedgers == UNION {LedgersOver(S) : S \in SUBSET TxNames}

\* The store after the ledger was saved as current, in any iteration order; one
\* invocation is left to run.
InitReport ==
    /\ home = TRUE
    /\ fs \in {r.fs : r \in UNION {save_current_ledger(
                                      [dir |-> TRUE, files |-> [p \in {} |-> <<>>]], l) :
                                   l \in ReportLedgers}}
    /\ cmd = Cmd("none", <<>>)
    /\ result = "none"
    /\ out = NoOutput
    /\ bk = None
    /\ ncmds = MaxCmds - 1
    /\ procs = NoProcs
    /\ hist = <<>>

NextReport ==
    \/ report
    \/ list

SpecReport == InitReport /\ [][NextReport]_vars

(***************************************************************************)
(* Properties of the report (SpecReport)                                   *)
(***************************************************************************)
RECURSIVE SumFn(_)
SumFn(f) ==
    IF DOMAIN f = {} THEN 0
    ELSE LET n == CHOOSE x \in DOMAIN f : TRUE
         IN  f[n] + SumFn([k \in DOMAIN f \ {n} |-> f[k]])

\* The sum of the monthly-equivalent amounts of the entries of L named in S.
MonthlySum(L, S) == SumFn([n \in S |-> monthly_money(L[n]).cents])

Incomes(L) == {n \in DOMAIN L : L[n].add_type = "income"}

Expenses(L) == {n \in DOMAIN L : L[n].add_type = "expense"}

\* The cents a printed amount stands for.
Shown(amount) == amount[2].dollars * 100 + amount[2].cents

\* C5: the total of a report is the sum of the monthly-equivalent amounts of
\* the incomes minus that of the expenses, in every iteration order: 0 for the
\* empty ledger, +100000 for one monthly income of 100000 cents, 0 again with
\* a monthly expense of 100000 cents beside it.
C5_SignedTotal ==
    out.kind = "report"
    => LET L == load_current_ledger(fs).ledger
           inc == Transaction("income", "monthly", "a", 100000, None, None)
           exp == Transaction("expense", "monthly", "b", 100000, None, None)
       IN  /\ out.total = MonthlySum(L, Incomes(L)) - MonthlySum(L, Expenses(L))
           /\ DOMAIN L = {} => out.total = 0
           /\ (DOMAIN L = {"a"} /\ L["a"] = inc) => out.total = 100000
           /\ (DOMAIN L = {"a", "b"} /\ L["a"] = inc /\ L["b"] = exp) => out.total = 0

\* A report of an income and a larger expense, the expense iterated first.
C5_Witness ==
    /\ out.kind = "report"
    /\ Len(out.rows) = 2
    /\ out.rows[1].expend # ""
    /\ out.rows[2].income # ""
    /\ Shown(out.rows[2].amount) > 0
    /\ out.total < 0

\* The multiplier of the frequency as the fraction Num / Den.
Num(freq) ==
    CASE freq = "daily" -> 30 [] freq = "workdays" -> 214 [] freq = "weekly" -> 428
      [] OTHER -> 1

Den(freq) ==
    CASE freq = "workdays" -> 10 [] freq = "weekly" -> 100
      [] freq = "quarterly" -> 3 [] freq = "yearly" -> 12 [] OTHER -> 1

\* C6: the amount on each row of the report is the stored cents times the
\* multiplier of the frequency, truncated: the stored cents themselves for a
\* monthly transaction.
C6_MonthlyEquivalent ==
    out.kind = "report"
    => \A i \in 1..Len(out.rows) :
          LET L == load_current_ledger(fs).ledger
              t == L[IF out.rows[i].income # "" THEN out.rows[i].income
                     ELSE out.rows[i].expend]
          IN  Shown(out.rows[i].amount)
                = (t.amount.cents * Num(t.freq)) \div Den(t.freq)

\* C7: the TOTAL row is in parentheses exactly when the total is negative.
C7_ParenthesesIffNegative ==
    out.kind = "report"
    => /\ (out.total_str[1] = "(") <=> (out.total < 0)
       /\ Shown(out.total_str) = IF out.total < 0 THEN -out.total ELSE out.total

\* C10: each expense is counted in the breakdown row of its category, or in
\* (other) when it has none, and in the coverage row of its account, or in
\* (unallocated) when it has none; incomes are counted in neither; so both
\* sections add up to the monthly-equivalent amounts of the expenses.
C10_Buckets ==
    out.kind = "report"
    => LET L == load_current_ledger(fs).ledger
           E == Expenses(L)
       IN  /\ DOMAIN out.breakdown = {L[n].category[1] : n \in {e \in E : L[e].category # None}}
           /\ \A c \in DOMAIN out.breakdown :
                 out.breakdown[c] = MonthlySum(L, {n \in E : L[n].category = Some(c)})
           /\ out.other_expenses = MonthlySum(L, {n \in E : L[n].category = None})
           /\ DOMAIN out.coverage = {L[n].account[1] : n \in {e \in E : L[e].account # None}}
           /\ \A c \in DOMAIN out.coverage :
                 out.coverage[c] = MonthlySum(L, {n \in E : L[n].account = Some(c)})
           /\ out.other_alloc = MonthlySum(L, {n \in E : L[n].account = None})
           /\ SumFn(out.breakdown) + out.other_expenses = MonthlySum(L, E)
           /\ SumFn(out.coverage) + out.other_alloc = MonthlySum(L, E)

\* A report of two expenses of one category, one with an account, one without.
C10_Witness ==
    /\ out.kind = "report"
    /\ Len(out.rows) = 2
    /\ DOMAIN out.breakdown = {"food"}
    /\ out.breakdown["food"] > Shown(out.rows[1].amount)
    /\ out.breakdown["food"] > Shown(out.rows[2].amount)
    /\ out.other_expenses = 0
    /\ DOMAIN out.coverage = {"bank"}
    /\ out.coverage["bank"] > 0
    /\ out.other_alloc > 0

(***************************************************************************)
(* SpecConc: two invocations of add / rm against one directory, one system *)
(* call at a time.  load_ledger opens the file and reads it token by token *)
(* to its end; save_ledger opens it with truncate and writes token by      *)
(* token at the offset of its own descriptor.  Nothing is locked.          *)
(***************************************************************************)
Procs == {1, 2}

ConcCmds == {Cmd("add", <<ac>>) : ac \in TxInputs} \cup {Cmd("rm", <<rc>>) : rc \in TxNames}

RECURSIVE PoolLedgersOver(_)
PoolLedgersOver(S) ==
    IF S = {} THEN {NewLedger}
    ELSE LET n == CHOOSE x \in S : TRUE
         IN  {Insert(l, n, t).map : l \in PoolLedgersOver(S \ {n}), t \in TxPool(n)}

Started(c) ==
    [pc |-> "load_open", cmd |-> c, rbuf |-> <<>>, ledger |-> NewLedger,
     wbuf |-> <<>>, wpos |-> 0, result |-> "none"]

InitConc ==
    /\ home = TRUE
    /\ fs \in {r.fs : r \in UNION {save_current_ledger(
                                      [dir |-> TRUE, files |-> [p \in {} |-> <<>>]], l) :
                                   l \in UNION {PoolLedgersOver(S) : S \in SUBSET TxNames}}}
    /\ cmd = Cmd("none", <<>>)
    /\ result = "none"
    /\ out = NoOutput
    /\ bk = None
    /\ ncmds = 0
    /\ procs \in [Procs -> {Started(c) : c \in ConcCmds}]
    /\ hist = <<>>

Exit(p, e) == [procs EXCEPT ![p].pc = "done", ![p].result = e]

\* load_ledger: OpenOptions::new().read(true).open(get_path(name)?)
load_open(p) ==
    /\ procs[p].pc = "load_open"
    /\ LET path == get_path(CurrentData)
       IN  procs' = IF path.err # "Ok" THEN Exit(p, path.err)
                    ELSE IF ~fs.dir \/ path.path \notin DOMAIN fs.files
                         THEN Exit(p, "WhileAttemptingToOpenDataFile")
                    ELSE [procs EXCEPT ![p].pc = "load_read"]
    /\ UNCHANGED <<home, fs, cmd, result, out, bk, ncmds, hist>>

\* The handler between load_current_ledger and save_current_ledger: add
\* inserts (and returns NameIsAlreadyTaken on a displaced value), rm removes.
Modified(p, ledger) ==
    LET c == procs[p].cmd
    IN  IF c.op = "add"
        THEN IF Insert(ledger, c.arg[1].name, c.arg[1]).old # None
             THEN Exit(p, "NameIsAlreadyTaken")
             ELSE [procs EXCEPT ![p].pc = "save_open",
                                ![p].ledger = Insert(ledger, c.arg[1].name, c.arg[1]).map]
        ELSE [procs EXCEPT ![p].pc = "save_open",
                           ![p].ledger = Remove(ledger, c.arg[1])]

\* serde_json::from_reader: one read at the descriptor's offset; at the end
\* of the file what was read is parsed.
load_read(p) ==
    /\ procs[p].pc = "load_read"
    /\ LET content == fs.files[get_path(CurrentData).path]
           pos == Len(procs[p].rbuf)
       IN  procs' = IF pos < Len(content)
                    THEN [procs EXCEPT ![p].rbuf = Append(@, content[pos + 1])]
                    ELSE IF ~from_json_ok(procs[p].rbuf)
                         THEN Exit(p, "DuringDeSerialisation")
                    ELSE Modified(p, from_json(procs[p].rbuf))
    /\ UNCHANGED <<home, fs, cmd, result, out, bk, ncmds, hist>>

\* save_ledger: the open with create and truncate.
save_open(p) ==
    /\ procs[p].pc = "save_open"
    /\ LET o == open_truncate(fs, CurrentData)
       IN  IF o.err # "Ok"
           THEN procs' = Exit(p, o.err) /\ UNCHANGED <<fs, hist>>
           ELSE /\ fs' = o.fs
                /\ \E order \in Orders(DOMAIN procs[p].ledger) :
                      procs' = [procs EXCEPT
                                  ![p].pc = "save_write",
                                  ![p].wbuf = to_json(procs[p].ledger, order),
                                  ![p].wpos = 0]
                /\ hist' = Append(hist, <<p, "open">>)
    /\ UNCHANGED <<home, cmd, result, out, bk, ncmds>>

\* save_ledger: one write of to_writer_pretty; after the last the handler
\* returns Ok.
save_write(p) ==
    /\ procs[p].pc = "save_write"
    /\ fs' = [fs EXCEPT !.files[get_path(CurrentData).path] =
                write_at(@, procs[p].wpos, <<procs[p].wbuf[procs[p].wpos + 1]>>)]
    /\ IF procs[p].wpos + 1 = Len(procs[p].wbuf)
       THEN /\ procs' = Exit(p, "Ok")
            /\ hist' = Append(hist, <<p, "end">>)
       ELSE /\ procs' = [procs EXCEPT ![p].wpos = @ + 1]
            /\ UNCHANGED hist
    /\ UNCHANGED <<home, cmd, result, out, bk, ncmds>>

NextConc ==
    \E p \in Procs :
        \/ load_open(p)
        \/ load_read(p)
        \/ save_open(p)
        \/ save_write(p)

SpecConc == InitConc /\ [][NextConc]_vars

(***************************************************************************)
(* Properties of concurrent invocations (SpecConc)                         *)
(***************************************************************************)
AllDone == \A p \in Procs : procs[p].pc = "done"

\* The invocations whose save_ledger returned Ok.
Savers == {p \in Procs : procs[p].pc = "done" /\ procs[p].result = "Ok"}

\* The invocation whose save ended last.
LastSaver == hist[Len(hist)][1]

\* The two save_ledger calls did not overlap: one returned before the other
\* opened the file.
Disjoint == \E p, q \in Procs :
               hist = <<<<p, "open">>, <<p, "end">>, <<q, "open">>, <<q, "end">>>>

\* C8 as claimed: once both invocations have finished, the stored current
\* ledger is exactly the ledger written by the one whose save ended last.
C8_LastWriterWins ==
    (AllDone /\ Savers # {})
    => load_current_ledger(fs) = Ok(procs[LastSaver].ledger)

\* C8 amended: that holds when only one invocation saved, or when the two
\* saves did not overlap.
C8_LastWriterWinsDisjoint ==
    (AllDone /\ Savers # {} /\ (Cardinality(Savers) = 1 \/ Disjoint))
    => load_current_ledger(fs) = Ok(procs[LastSaver].ledger)

\* Two adds saved one after the other and the first one's entry is lost.
C8_Witness ==
    /\ AllDone
    /\ Disjoint
    /\ \E p \in Procs :
          /\ hist[1][1] = p
          /\ procs[p].cmd.op = "add"
          /\ procs[p].cmd.arg[1].name \notin DOMAIN load_current_ledger(fs).ledger

====
